---- MODULE Spec2Model ----
(***************************************************************************)
(* Model of src/src/components/MapView.jsx: the MapView component, its     *)
(* React state (items, loading), the memoized geojson projection, the map  *)
(* and draw refs, the three fetch-issuing operations (loadAll, runSearch,  *)
(* clearSearch) with their asynchronous completions, the map 'load'        *)
(* handler and the effect that pushes geojson into the 'properties'        *)
(* source.                                                                 *)
(***************************************************************************)
EXTENDS Integers, Sequences, FiniteSets, TLC

\* ------------------------------------------------------------------ bounds
MaxFetches == 3   \* fetches issued in one run (initial load included)
MaxDrawn == 2     \* features the user has drawn at one time
MaxLen == 3       \* length of the datasets the projection is tried on
MaxClicks == 1    \* clicks on the map's layers in one run

\* ------------------------------------------------------- JavaScript values
\* Values are tagged so that numbers, strings, null and undefined stay apart.
Undefined == [t |-> "undefined"]
Null == [t |-> "null"]
Num(n) == [t |-> "number", v |-> n]
Str(s) == [t |-> "string", v |-> s]
Arr(s) == [t |-> "array", v |-> s]

\* obj.k : a missing property reads as undefined
Get(obj, k) == IF k \in DOMAIN obj THEN obj[k] ELSE Undefined

\* a ?? b
Coalesce(a, b) == IF a.t \in {"undefined", "null"} THEN b ELSE a

\* a || b
Or(a, b) ==
  IF a.t \in {"undefined", "null"} \/ (a.t = "number" /\ a.v = 0)
     \/ (a.t = "string" /\ a.v = "")
  THEN b ELSE a

\* ------------------------------------------------------------ the backend
Point(x, y) == [type |-> "Point", coordinates |-> <<x, y>>]

\* Property records the backend may return; price may be a number (0
\* included), null, or absent.
R1 == [id |-> Str("1"), title |-> Str("A"), price |-> Num(100), location |-> Point(0, 0)]
R2 == [id |-> Str("2"), title |-> Str("B"), location |-> Point(1, 1)]
RX == [id |-> Str("x"), title |-> Str("X"), price |-> Num(0), location |-> Point(2, 2)]
RY == [id |-> Str("y"), title |-> Str("Y"), price |-> Null, location |-> Point(3, 3)]

\* Record lists a well-formed response { items: [...] } may carry.
ItemLists == { <<>>, <<R1, R2>>, <<RX, RY>> }

\* What a fetch can settle with:
\*   reject  - fetch() rejects (transport failure)
\*   badjson - res.json() rejects (unparseable body)
\*   json    - res.json() resolves with data: an object without `items`
\*             (e.g. the body of an error status), or { items: [...] }
Outcomes ==
  { [k |-> "reject"], [k |-> "badjson"],
    [k |-> "json", data |-> [detail |-> Str("Not Found")]] }
  \cup { [k |-> "json", data |-> [items |-> Arr(l)]] : l \in ItemLists }

\* The response has the documented shape { items: PropertyRecord[] }.
WellFormed(o) == o.k = "json" /\ "items" \in DOMAIN o.data
Records(o) == o.data.items.v

\* ------------------------------------------------------------ DrawingTool
RingA == << <<0, 0>>, <<4, 0>>, <<0, 4>>, <<0, 0>> >>
PolygonA == [geometry |-> [type |-> "Polygon", coordinates |-> <<RingA>>]]
LineC == [geometry |-> [type |-> "LineString", coordinates |-> << <<0, 0>>, <<1, 1>> >>]]
\* Features draw.getAll() may hold: getAll returns whatever geometries the
\* draw control holds, and runSearch filters them by type.
Drawable == { PolygonA, LineC }

\* Other polygons the draw control may hand out: a second valid one, one
\* whose ring is not closed, and one with two distinct vertices only.
RingB == << <<1, 1>>, <<5, 1>>, <<1, 5>>, <<1, 1>> >>
RingOpen == << <<0, 0>>, <<4, 0>>, <<0, 4>>, <<2, 2>> >>
RingFlat == << <<0, 0>>, <<4, 0>>, <<0, 0>> >>
PolygonB == [geometry |-> [type |-> "Polygon", coordinates |-> <<RingB>>]]
PolygonOpen == [geometry |-> [type |-> "Polygon", coordinates |-> <<RingOpen>>]]
PolygonFlat == [geometry |-> [type |-> "Polygon", coordinates |-> <<RingFlat>>]]
DrawableWide == Drawable \cup { PolygonB, PolygonOpen, PolygonFlat }

NoFeature == [none |-> TRUE]

\* ------------------------------------------------------------------ state
VARIABLES
  items,          \* useState items: the value of the latest setItems
  loading,        \* useState loading
  geojson,        \* the memoized projection of the last committed render
  dirty,          \* a setItems whose re-render has not been committed yet
  mapRef,         \* mapRef.current: "null" or "map"
  drawRef,        \* drawRef.current: "null" or "draw"
  drawn,          \* draw.getAll().features
  loaded,         \* the map's 'load' event has fired (style is loaded)
  source,         \* data of the 'properties' source, NoSource before addSource
  captured,       \* the geojson closed over by the mount effect
  inflight,       \* requests issued and not yet settled
  nextId,         \* issue number of the next request
  lastSettled,    \* history: the most recent settled request and its outcome
  lastWellFormed, \* history: the records of the most recent well-formed response
  lastAll,        \* history: the most recent well-formed unfiltered (GET) response
  consoleErrors,  \* console.error calls
  unhandled,      \* promise rejections nobody handles
  backend,        \* import.meta.env.VITE_BACKEND_URL
  mounted,        \* the component's effects are mounted
  mapLive,        \* the map mapRef points to: "none", "live" or "removed"
  handlers,       \* subscriptions of the two layer click handlers on that map
  staleUse,       \* a method was called on a map that had been removed
  camera,         \* the target of the last easeTo, None before any
  popup,          \* the popup shown on the map, None when there is none
  pendingZoom,    \* getClusterExpansionZoom calls whose callback has not run
  uncaught,       \* exceptions thrown out of a map event handler
  clicks          \* layer clicks handled so far

vars == << items, loading, geojson, dirty, mapRef, drawRef, drawn, loaded,
           source, captured, inflight, nextId, lastSettled,
           lastWellFormed, lastAll, consoleErrors, unhandled, backend,
           mounted, mapLive, handlers, staleUse, camera, popup, pendingZoom,
           uncaught, clicks >>

life == << mounted, mapLive, handlers, staleUse >>
view == << camera, popup, pendingZoom, uncaught, clicks >>

hist == << lastSettled, lastWellFormed, lastAll >>

None == [none |-> TRUE]
NoSource == [none |-> TRUE]

\* ------------------------------------------------------ geojson (useMemo)
PriceOfOr(p) == Or(Get(p, "price"), Str(""))
PriceOf(p) == Coalesce(Get(p, "price"), Str(""))

ToFeature(p) ==
  [ type |-> "Feature",
    properties |-> [id |-> Get(p, "id"), title |-> Get(p, "title"), price |-> PriceOf(p)],
    geometry |-> Get(p, "location") ]

\* (items || []).map(...): items is always an array here, and arrays are truthy
Geojson(its) ==
  [ type |-> "FeatureCollection",
    features |-> [i \in 1..Len(Or(Arr(its), Arr(<<>>)).v) |-> ToFeature(its[i])] ]

InitComponent ==
  /\ items = <<>>
  /\ loading = TRUE
  /\ geojson = Geojson(<<>>)
  /\ dirty = FALSE
  /\ mapRef = "null"
  /\ drawRef = "null"
  /\ drawn = <<>>
  /\ loaded = FALSE
  /\ source = NoSource
  /\ captured = NoSource
  /\ inflight = {}
  /\ nextId = 1
  /\ lastSettled = None
  /\ lastWellFormed = None
  /\ lastAll = None
  /\ consoleErrors = 0
  /\ unhandled = 0
  /\ mounted = FALSE
  /\ mapLive = "none"
  /\ handlers = 0
  /\ staleUse = FALSE
  /\ camera = None
  /\ popup = None
  /\ pendingZoom = {}
  /\ uncaught = 0
  /\ clicks = 0

\* VITE_BACKEND_URL is set
Init == backend = Str("http://backend") /\ InitComponent

\* VITE_BACKEND_URL is not set: `backend` is undefined
InitUnconfigured == backend = Undefined /\ InitComponent

\* `${backend}/api/properties`, `${backend}/api/properties/search`: a template
\* literal renders undefined as the text "undefined"
TemplateText(x) == IF x = Undefined THEN "undefined" ELSE x.v
Url(kind) ==
  [ base |-> TemplateText(backend),
    path |-> IF kind = "search" THEN "/api/properties/search" ELSE "/api/properties" ]

Request(kind, body) ==
  [id |-> nextId, kind |-> kind, url |-> Url(kind), body |-> body]

\* ------------------------------------------------------- the first commit
\* The three effects of the first commit run in order: the mount effect
\* creates the map and the draw control and registers the 'load' handler,
\* which closes over this render's geojson; the [geojson] effect returns
\* because the style is not loaded; loadAll issues GET /api/properties.
Mount ==
  /\ ~mounted
  /\ mapRef = "null"
  /\ nextId <= MaxFetches
  /\ mounted' = TRUE
  /\ mapLive' = "live"
  /\ UNCHANGED << handlers, staleUse, backend, view >>
  /\ mapRef' = "map"
  /\ drawRef' = "draw"
  /\ captured' = geojson
  /\ inflight' = inflight \cup { Request("load", Undefined) }
  /\ nextId' = nextId + 1
  /\ UNCHANGED << items, loading, geojson, dirty, drawn, loaded, source,
                  hist, consoleErrors, unhandled >>

\* map.on('load', ...): addSource with the geojson captured at mount
MapLoad ==
  /\ mapRef = "map"
  /\ mapLive = "live"
  /\ ~loaded
  /\ handlers' = handlers + 1
  /\ UNCHANGED << mounted, mapLive, staleUse, backend, view >>
  /\ loaded' = TRUE
  /\ source' = captured
  /\ loading' = FALSE
  /\ UNCHANGED << items, geojson, dirty, mapRef, drawRef, drawn, captured,
                  inflight, nextId, hist, consoleErrors, unhandled >>

\* useEffect([geojson]): push g into the 'properties' source when the map
\* exists, its style is loaded and the source has been added
SourceAfterEffect(g) ==
  IF mapRef = "null" \/ ~loaded THEN source
  ELSE IF source = NoSource THEN source
  ELSE g

\* React commits the re-render a setItems scheduled: useMemo recomputes
\* geojson from items and the [geojson] effect runs.
Render ==
  /\ dirty
  /\ staleUse' = (staleUse \/ (mapRef = "map" /\ mapLive = "removed"))
  /\ UNCHANGED << mounted, mapLive, handlers, backend, view >>
  /\ dirty' = FALSE
  /\ geojson' = Geojson(items)
  /\ source' = SourceAfterEffect(geojson')
  /\ UNCHANGED << items, loading, mapRef, drawRef, drawn, loaded, captured,
                  inflight, nextId, hist, consoleErrors, unhandled >>

\* ------------------------------------------------------------ DrawingTool
\* A drawing that also empties the Dataset.
DrawClearsDataset(g) ==
  /\ drawRef = "draw"
  /\ mapLive = "live"
  /\ UNCHANGED << life, backend, view >>
  /\ Len(drawn) < MaxDrawn
  /\ drawn' = Append(drawn, g)
  /\ items' = <<>>
  /\ dirty' = TRUE
  /\ UNCHANGED << loading, geojson, mapRef, drawRef, loaded, source,
                  captured, inflight, nextId, hist, consoleErrors,
                  unhandled >>

\* The user finishes drawing a feature.
Draw(g) ==
  /\ drawRef = "draw"
  /\ mapLive = "live"
  /\ UNCHANGED << life, backend, view >>
  /\ Len(drawn) < MaxDrawn
  /\ drawn' = Append(drawn, g)
  /\ UNCHANGED << items, loading, geojson, dirty, mapRef, drawRef, loaded,
                  source, captured, inflight, nextId, hist, consoleErrors,
                  unhandled >>

\* The user selects the i-th feature and presses the trash control.
Trash(i) ==
  /\ drawRef = "draw"
  /\ mapLive = "live"
  /\ UNCHANGED << life, backend, view >>
  /\ i \in 1..Len(drawn)
  /\ drawn' = [j \in 1..(Len(drawn) - 1) |-> IF j < i THEN drawn[j] ELSE drawn[j + 1]]
  /\ UNCHANGED << items, loading, geojson, dirty, mapRef, drawRef, loaded,
                  source, captured, inflight, nextId, hist, consoleErrors,
                  unhandled >>

\* ---------------------------------------------------------------- runSearch
\* f.features.find((g) => g.geometry.type === 'Polygon')
FindAny(features) ==
  IF features = <<>> THEN NoFeature ELSE features[1]
FindLastPolygon(features) ==
  IF \E i \in 1..Len(features) : features[i].geometry.type = "Polygon"
  THEN features[CHOOSE i \in 1..Len(features) :
                  /\ features[i].geometry.type = "Polygon"
                  /\ \A j \in (i + 1)..Len(features) : features[j].geometry.type # "Polygon"]
  ELSE NoFeature
FindPolygon(features) ==
  IF \E i \in 1..Len(features) : features[i].geometry.type = "Polygon"
  THEN features[CHOOSE i \in 1..Len(features) :
                  /\ features[i].geometry.type = "Polygon"
                  /\ \A j \in 1..(i - 1) : features[j].geometry.type # "Polygon"]
  ELSE NoFeature

\* JSON.stringify({ polygon: { type: 'Polygon', coordinates } })
SearchBody(poly) ==
  [polygon |-> [type |-> "Polygon", coordinates |-> poly.geometry.coordinates]]

\* The "Search area" button: the synchronous part of runSearch, up to the
\* first await.
RunSearch ==
  /\ mounted
  /\ mapRef = "map"
  /\ mapLive = "live"
  /\ IF drawRef = "null" THEN UNCHANGED vars
     ELSE LET poly == FindPolygon(drawn) IN
          IF poly = NoFeature THEN UNCHANGED vars
          ELSE /\ nextId <= MaxFetches
               /\ inflight' = inflight \cup { Request("search", SearchBody(poly)) }
               /\ nextId' = nextId + 1
               /\ UNCHANGED << life, backend, view >>
               /\ UNCHANGED << items, loading, geojson, dirty, mapRef, drawRef,
                               drawn, loaded, source, captured, hist,
                               consoleErrors, unhandled >>

ClearSearchKeepsDrawn ==
  /\ mounted
  /\ mapRef = "map"
  /\ mapLive = "live"
  /\ UNCHANGED << life, backend, view >>
  /\ nextId <= MaxFetches
  /\ inflight' = inflight \cup { Request("clear", Undefined) }
  /\ nextId' = nextId + 1
  /\ UNCHANGED << items, loading, geojson, dirty, mapRef, drawRef, drawn, loaded,
                  source, captured, hist, consoleErrors, unhandled >>

\* The "Clear" button: the synchronous part of clearSearch.
ClearSearch ==
  /\ mounted
  /\ mapRef = "map"
  /\ mapLive = "live"
  /\ UNCHANGED << life, backend, view >>
  /\ nextId <= MaxFetches
  /\ drawn' = IF drawRef = "null" THEN drawn ELSE <<>>
  /\ inflight' = inflight \cup { Request("clear", Undefined) }
  /\ nextId' = nextId + 1
  /\ UNCHANGED << items, loading, geojson, dirty, mapRef, drawRef, loaded,
                  source, captured, hist, consoleErrors, unhandled >>

\* ------------------------------------------------------ fetch completions
\* `await fetch(...)` or `await res.json()` rejects: the rest of the
\* function body is skipped.
Throws(o) == o.k # "json"

\* setItems(data.items || [])
NextItemsMerge(data) == items \o Or(Get(data, "items"), Arr(<<>>)).v
NextItemsKeepFirst(data) ==
  IF items # <<>> THEN items ELSE Or(Get(data, "items"), Arr(<<>>)).v
NextItems(data) == Or(Get(data, "items"), Arr(<<>>)).v

\* catch (e) { console.error(e) }: the state is left alone
ItemsAfterCatchReset == <<>>
ItemsAfterCatch == items

Settle(f, o) ==
  /\ inflight' = inflight \ {f}
  /\ lastSettled' = [id |-> f.id, kind |-> f.kind, outcome |-> o]
  /\ lastWellFormed' = IF WellFormed(o) THEN Arr(Records(o)) ELSE lastWellFormed
  /\ lastAll' = IF WellFormed(o) /\ f.kind \in {"load", "clear"}
                THEN [id |-> f.id, kind |-> f.kind, v |-> Records(o)] ELSE lastAll

LoadAllSettleUncaught(f, o) ==
  /\ f \in inflight /\ f.kind = "load"
  /\ Settle(f, o)
  /\ UNCHANGED << life, backend, view >>
  /\ IF Throws(o)
     THEN /\ unhandled' = unhandled + 1
          /\ UNCHANGED << items, dirty >>
     ELSE /\ items' = NextItems(o.data)
          /\ dirty' = TRUE
          /\ UNCHANGED unhandled
  /\ UNCHANGED << loading, geojson, mapRef, drawRef, drawn, loaded, source,
                  captured, nextId, consoleErrors >>

\* loadAll after its fetch settles with o
LoadAllSettle(f, o) ==
  /\ f \in inflight /\ f.kind = "load"
  /\ Settle(f, o)
  /\ UNCHANGED << life, backend, view >>
  /\ IF Throws(o)
     THEN /\ items' = ItemsAfterCatch
          /\ consoleErrors' = consoleErrors + 1
          /\ UNCHANGED dirty
     ELSE /\ items' = NextItems(o.data)
          /\ dirty' = TRUE
          /\ UNCHANGED consoleErrors
  /\ UNCHANGED << loading, geojson, mapRef, drawRef, drawn, loaded, source,
                  captured, nextId, unhandled >>

\* runSearch after its fetch settles with o
RunSearchSettle(f, o) ==
  /\ f \in inflight /\ f.kind = "search"
  /\ Settle(f, o)
  /\ UNCHANGED << life, backend, view >>
  /\ IF Throws(o)
     THEN /\ items' = ItemsAfterCatch
          /\ consoleErrors' = consoleErrors + 1
          /\ UNCHANGED dirty
     ELSE /\ items' = NextItems(o.data)
          /\ dirty' = TRUE
          /\ UNCHANGED consoleErrors
  /\ UNCHANGED << loading, geojson, mapRef, drawRef, drawn, loaded, source,
                  captured, nextId, unhandled >>

ClearSearchSettleDropped(f, o) ==
  /\ f \in inflight /\ f.kind = "clear"
  /\ Settle(f, o)
  /\ UNCHANGED << life, backend, view >>
  /\ IF Throws(o)
     THEN unhandled' = unhandled + 1
     ELSE UNCHANGED unhandled
  /\ UNCHANGED << items, dirty, loading, geojson, mapRef, drawRef, drawn, loaded,
                  source, captured, nextId, consoleErrors >>

\* clearSearch after its fetch settles with o: there is no try/catch, a
\* throw rejects the promise the onClick handler dropped
ClearSearchSettle(f, o) ==
  /\ f \in inflight /\ f.kind = "clear"
  /\ Settle(f, o)
  /\ UNCHANGED << life, backend, view >>
  /\ IF Throws(o)
     THEN /\ unhandled' = unhandled + 1
          /\ UNCHANGED << items, dirty >>
     ELSE /\ items' = NextItems(o.data)
          /\ dirty' = TRUE
          /\ UNCHANGED unhandled
  /\ UNCHANGED << loading, geojson, mapRef, drawRef, drawn, loaded, source,
                  captured, nextId, consoleErrors >>

Next ==
  \/ Mount
  \/ MapLoad
  \/ Render
  \/ \E g \in Drawable : Draw(g)
  \/ \E i \in 1..MaxDrawn : Trash(i)
  \/ RunSearch
  \/ ClearSearch
  \/ \E f \in inflight, o \in Outcomes : LoadAllSettle(f, o)
  \/ \E f \in inflight, o \in Outcomes : RunSearchSettle(f, o)
  \/ \E f \in inflight, o \in Outcomes : ClearSearchSettle(f, o)

Spec == Init /\ [][Next]_vars

\* ------------------------------------------------- searches on their own
\* The draw control hands out any polygon; the initial load and the
\* searches run as in Spec (no clear, no map load).
NextSearch ==
  \/ Mount
  \/ \E g \in DrawableWide : Draw(g)
  \/ \E i \in 1..MaxDrawn : Trash(i)
  \/ RunSearch
  \/ \E f \in inflight, o \in Outcomes : LoadAllSettle(f, o)
  \/ \E f \in inflight, o \in Outcomes : RunSearchSettle(f, o)

SearchSpec == Init /\ [][NextSearch]_vars

\* ------------------------------------- the initial load failing on its own
\* Spec with the initial GET rejected by the transport.
NextLoadFails ==
  \/ Mount
  \/ MapLoad
  \/ Render
  \/ \E g \in Drawable : Draw(g)
  \/ \E i \in 1..MaxDrawn : Trash(i)
  \/ RunSearch
  \/ ClearSearch
  \/ \E f \in inflight : LoadAllSettle(f, [k |-> "reject"])
  \/ \E f \in inflight, o \in Outcomes : RunSearchSettle(f, o)
  \/ \E f \in inflight, o \in Outcomes : ClearSearchSettle(f, o)

LoadFailSpec == Init /\ [][NextLoadFails]_vars

\* ------------------------------------------- the projection on its own
\* Every dataset of up to MaxLen records, waiting for its render.
RecordPool == { R1, R2, RX, RY }
Datasets == UNION { [1..n -> RecordPool] : n \in 0..MaxLen }

InitDerive ==
  /\ items \in Datasets
  /\ dirty = TRUE
  /\ loading = TRUE
  /\ geojson = Geojson(<<>>)
  /\ mapRef = "null"
  /\ drawRef = "null"
  /\ drawn = <<>>
  /\ loaded = FALSE
  /\ source = NoSource
  /\ captured = NoSource
  /\ inflight = {}
  /\ nextId = 1
  /\ lastSettled = None
  /\ lastWellFormed = None
  /\ lastAll = None
  /\ consoleErrors = 0
  /\ unhandled = 0
  /\ backend = Str("http://backend")
  /\ mounted = FALSE
  /\ mapLive = "none"
  /\ handlers = 0
  /\ staleUse = FALSE
  /\ camera = None
  /\ popup = None
  /\ pendingZoom = {}
  /\ uncaught = 0
  /\ clicks = 0

DeriveSpec == InitDerive /\ [][Render]_vars

\* ------------------------------------------------------ VITE_BACKEND_URL
\* The component mounted with no backend URL in its environment.
ConfigSpec == InitUnconfigured /\ [][Next]_vars

\* ----------------------------------------------------- click interactions
\* What queryRenderedFeatures can hand the 'clusters' click handler: a
\* cluster, a feature that carries no cluster_id, or nothing.
ClusterFeature ==
  [ properties |-> [cluster_id |-> Num(7), point_count |-> Num(2)],
    geometry |-> Point(0, 0) ]
PlainFeature ==
  [ properties |-> [id |-> Str("1"), title |-> Str("A"), price |-> Num(100)],
    geometry |-> Point(0, 0) ]
RenderedFeatures == { <<>>, <<ClusterFeature>>, <<PlainFeature>> }

\* What getClusterExpansionZoom passes to its callback: (err) or (null, zoom)
ZoomError == [err |-> Str("No cluster with the specified id")]
ZoomFound == [err |-> Null, zoom |-> Num(5)]

Truthy(v) == Or(v, Undefined) # Undefined

\* map.on('click', 'clusters', ...): features[0].properties throws a
\* TypeError when the query found nothing; otherwise the handler asks the
\* source for the expansion zoom and returns.
ClusterClick(features) ==
  /\ handlers > 0
  /\ mapLive = "live"
  /\ clicks < MaxClicks
  /\ clicks' = clicks + 1
  /\ IF Len(features) = 0
       THEN /\ uncaught' = uncaught + 1
            /\ UNCHANGED pendingZoom
       ELSE /\ pendingZoom' = pendingZoom \cup
                 { [ clusterId |-> Get(features[1].properties, "cluster_id"),
                     center |-> features[1].geometry.coordinates ] }
            /\ UNCHANGED uncaught
  /\ UNCHANGED << camera, popup, life, backend >>
  /\ UNCHANGED << items, loading, geojson, dirty, mapRef, drawRef, drawn,
                  loaded, source, captured, inflight, nextId, hist,
                  consoleErrors, unhandled >>

\* The callback of getClusterExpansionZoom: `if (err) return`, else easeTo.
\* The source knows no cluster of id undefined, so that lookup reports an
\* error.
ZoomCallback(p, res) ==
  /\ p \in pendingZoom
  /\ mapLive = "live"
  /\ p.clusterId = Undefined => res = ZoomError
  /\ pendingZoom' = pendingZoom \ {p}
  /\ camera' = IF Truthy(res.err) THEN camera
               ELSE [center |-> p.center, zoom |-> res.zoom]
  /\ UNCHANGED << popup, uncaught, clicks, life, backend >>
  /\ UNCHANGED << items, loading, geojson, dirty, mapRef, drawRef, drawn,
                  loaded, source, captured, inflight, nextId, hist,
                  consoleErrors, unhandled >>

\* price?.toLocaleString?.() || '' for the prices the source can hold
LocaleString(price) ==
  IF price.t \in {"undefined", "null"} THEN Undefined
  ELSE IF price.t = "number" THEN Str(ToString(price.v))
  ELSE price
PriceText(price) == Or(LocaleString(price), Str(""))

\* map.on('click', 'unclustered-point', ...): e.features is undefined, or
\* holds a feature of the 'properties' source.
PointClick(features) ==
  /\ handlers > 0
  /\ mapLive = "live"
  /\ clicks < MaxClicks
  /\ clicks' = clicks + 1
  /\ IF features = Undefined
       THEN UNCHANGED popup
       ELSE popup' = [ lngLat |-> features.v[1].geometry.coordinates,
                       title |-> Get(features.v[1].properties, "title"),
                       price |-> PriceText(Get(features.v[1].properties, "price")) ]
  /\ UNCHANGED << camera, pendingZoom, uncaught, life, backend >>
  /\ UNCHANGED << items, loading, geojson, dirty, mapRef, drawRef, drawn,
                  loaded, source, captured, inflight, nextId, hist,
                  consoleErrors, unhandled >>

\* The features a click on 'unclustered-point' can carry
PointFeatures ==
  { Undefined } \cup
  ( IF source = NoSource THEN {}
    ELSE { Arr(<<source.features[i]>>) : i \in 1..Len(source.features) } )

Clicks ==
  \/ \E fs \in RenderedFeatures : ClusterClick(fs)
  \/ \E p \in pendingZoom, res \in {ZoomError, ZoomFound} : ZoomCallback(p, res)
  \/ \E fs \in PointFeatures : PointClick(fs)

\* ------------------------------------------------- teardown and re-mount
\* The effects' cleanups run and the effects run again on the same refs
\* (React.StrictMode, Fast Refresh): the cleanup of the mount effect calls
\* map.remove() and leaves mapRef.current set, so the mount effect returns
\* at its guard; the [geojson] effect calls isStyleLoaded() on the removed
\* map; loadAll issues GET /api/properties again.
Remount ==
  /\ mounted
  /\ nextId <= MaxFetches
  /\ mapLive' = "removed"
  /\ loaded' = FALSE
  /\ source' = NoSource
  /\ handlers' = 0
  /\ popup' = None
  /\ pendingZoom' = {}
  /\ staleUse' = TRUE
  /\ inflight' = inflight \cup { Request("load", Undefined) }
  /\ nextId' = nextId + 1
  /\ UNCHANGED << mounted, camera, uncaught, clicks, backend >>
  /\ UNCHANGED << items, loading, geojson, dirty, mapRef, drawRef, drawn,
                  captured, hist, consoleErrors, unhandled >>

LifecycleSpec == Init /\ [][Next \/ Remount]_vars

\* ----------------------------------------------- every writer and reader
\* All the component's operations together: the fetch cycle, the drawing
\* tool and the clicks, with one polygon to draw and one response of each
\* kind (a rejection, a JSON body without items, a JSON body with items).
FrameOutcomes ==
  { [k |-> "reject"],
    [k |-> "json", data |-> [detail |-> Str("Not Found")]],
    [k |-> "json", data |-> [items |-> Arr(<<R1, R2>>)]] }

NextFrame ==
  \/ Mount
  \/ MapLoad
  \/ Render
  \/ Draw(PolygonA)
  \/ \E i \in 1..MaxDrawn : Trash(i)
  \/ RunSearch
  \/ ClearSearch
  \/ \E f \in inflight, o \in FrameOutcomes :
       \/ LoadAllSettle(f, o)
       \/ RunSearchSettle(f, o)
       \/ ClearSearchSettle(f, o)
  \/ Clicks

FrameSpec == Init /\ [][NextFrame]_vars

\* ------------------------------------------------------------------ claims
\* Ids of the requests that have settled.
SettledIds == (1..(nextId - 1)) \ { r.id : r \in inflight }

\* A step in which a request settles.
SettleStep == inflight' # inflight /\ inflight' \subseteq inflight

\* C1: last-write-wins by completion order. Whenever the most recently
\* settled fetch delivered a well-formed response, the Dataset is exactly
\* that response's records, whatever the order the fetches were issued in;
\* in particular this holds once every fetch has settled.
LastCompletedWins ==
  (lastSettled # None /\ WellFormed(lastSettled.outcome))
    => items = Records(lastSettled.outcome)

\* C1 witness: three fetches were issued and all have settled; the one
\* issued second (a search) settled last, after the one issued third, and
\* the Dataset is its records while the surface still shows the other
\* response.
LastCompletedWinsWitness ==
  /\ inflight = {} /\ nextId = 4
  /\ lastSettled # None /\ lastSettled.id = 2 /\ lastSettled.kind = "search"
  /\ 3 \in SettledIds
  /\ items = <<RX, RY>>
  /\ lastAll # None /\ lastAll.v = <<R1, R2>>
  /\ source = Geojson(<<R1, R2>>)

\* C2: the Dataset is the initial empty sequence or exactly the record
\* sequence of one response (the most recent well-formed one), never a mix
\* of two responses.
DatasetIsOneResponse ==
  \/ items = <<>>
  \/ lastWellFormed # None /\ items = lastWellFormed.v

\* C2 witness: responses with different records have been applied one after
\* the other (the last render shows one, the Dataset is the other).
DatasetIsOneResponseWitness ==
  /\ Cardinality(SettledIds) >= 2
  /\ items = <<R1, R2>>
  /\ geojson = Geojson(<<RX, RY>>)

\* C3: with no polygon among the drawn features, runSearch changes nothing
\* and no step issues a search request.
NoPolygonDrawn == \A i \in 1..Len(drawn) : drawn[i].geometry.type # "Polygon"

SearchWithoutPolygonIsNoOp ==
  [][NoPolygonDrawn =>
       /\ RunSearch => UNCHANGED vars
       /\ \A r \in inflight' \ inflight : r.kind # "search"]_vars

\* C3 witness: the component is mounted with a non-empty Dataset and only a
\* line drawn, so that "Search area" can be pressed with no polygon.
SearchWithoutPolygonWitness ==
  /\ mapRef = "map" /\ drawRef = "draw"
  /\ drawn = <<LineC>>
  /\ items # <<>>
  /\ nextId <= MaxFetches

\* C4: a fetch that fails (fetch rejects, or the body does not parse) leaves
\* the Dataset and the surface's source as they were, for load, search and
\* clear alike.
FailedFetchWritesNothing ==
  [][(SettleStep /\ Throws(lastSettled'.outcome))
       => UNCHANGED << items, source >>]_vars

\* C4 witness: a clear's fetch has just failed while the Dataset and the
\* source hold records.
FailedFetchWitness ==
  /\ lastSettled # None /\ Throws(lastSettled.outcome)
  /\ lastSettled.kind = "clear"
  /\ items = <<R1, R2>>
  /\ source = Geojson(<<R1, R2>>)

\* C5: no fetch error escapes: there is never an unhandled rejection.
NoFetchErrorEscapes == unhandled = 0

\* C6: a response that parses but lacks the `items` list does not alter the
\* Dataset.
MalformedResponseKeepsDataset ==
  [][(SettleStep /\ ~Throws(lastSettled'.outcome)
        /\ ~WellFormed(lastSettled'.outcome))
       => items' = items]_vars

\* C7: when the 'properties' source is added, it holds the projection of the
\* Dataset current at that moment (every setItems so far being rendered).
SourceInitializedFromCurrentDataset ==
  [][(source = NoSource /\ source' # NoSource /\ ~dirty)
       => source' = Geojson(items)]_vars

\* C8: once the surface is initialized, every fetch has settled and every
\* re-render is committed, the source holds the projection of the Dataset.
SurfaceConsistentWhenQuiet ==
  (loaded /\ source # NoSource /\ inflight = {} /\ ~dirty)
    => source = Geojson(items)

\* C9 as stated: once everything has settled and the most recent well-formed
\* unfiltered response is a clear's, the Dataset is that response, even when
\* a search was in flight during the clear (the last settled response being
\* well-formed).
ClearAlwaysYieldsUnfiltered ==
  (inflight = {} /\ lastAll # None /\ lastAll.kind = "clear"
     /\ WellFormed(lastSettled.outcome))
    => items = lastAll.v

\* C9 as amended: whenever the most recently settled fetch is a clear's with
\* a well-formed response, the Dataset is the result of the most recent
\* successful unfiltered fetch, which is that clear's.
ClearYieldsUnfilteredUntilNextCompletion ==
  (lastSettled # None /\ lastSettled.kind = "clear"
     /\ WellFormed(lastSettled.outcome))
    => /\ lastAll # None /\ lastAll.id = lastSettled.id
       /\ items = lastAll.v

\* C9 witness: a clear's response has just been applied while a search
\* issued before it is still in flight.
ClearYieldsUnfilteredWitness ==
  /\ lastSettled # None /\ lastSettled.kind = "clear"
  /\ WellFormed(lastSettled.outcome)
  /\ items = <<R1, R2>>
  /\ \E r \in inflight : r.kind = "search" /\ r.id < lastSettled.id

\* C10: the rendered projection has one feature per record, in order, with
\* the record's id, title and location, and the record's price when it has
\* one (0 included), the empty string otherwise.
ExpectedPrice(r) ==
  IF "price" \in DOMAIN r /\ r.price.t = "number" THEN r.price ELSE Str("")

DeriveProjectsRecords ==
  ~dirty =>
    /\ geojson.type = "FeatureCollection"
    /\ Len(geojson.features) = Len(items)
    /\ \A i \in 1..Len(items) :
         /\ geojson.features[i].type = "Feature"
         /\ geojson.features[i].properties.id = items[i].id
         /\ geojson.features[i].properties.title = items[i].title
         /\ geojson.features[i].geometry = items[i].location
         /\ geojson.features[i].properties.price = ExpectedPrice(items[i])

\* C10 witness: the spec's scenario followed by a record with price 0 has
\* been projected.
DeriveProjectsWitness ==
  /\ ~dirty
  /\ items = <<R1, R2, RX>>
  /\ Len(geojson.features) = 3
  /\ geojson.features[2].properties.price = Str("")
  /\ geojson.features[3].properties.price = Num(0)

\* C11: no search request is issued for a polygon whose ring is not closed
\* or has fewer than 3 distinct vertices.
ValidRing(r) ==
  /\ Len(r) >= 4
  /\ r[1] = r[Len(r)]
  /\ Cardinality({ r[i] : i \in 1..Len(r) }) >= 3

InvalidPolygonIsRejected ==
  [][\A r \in inflight' \ inflight :
       r.kind = "search" => ValidRing(r.body.polygon.coordinates[1])]_vars

\* C12: the initial load fails with a transport error. The failure is logged
\* and nothing escapes, the Dataset is left alone (empty when no response was
\* applied before), the load event still ends `loading`, and afterwards a
\* search with a polygon issues its request and applies a well-formed
\* response, a search without one does nothing.
LoadFailed == mapRef = "map" /\ \A r \in inflight : r.kind # "load"

InitialLoadFailureIsContained ==
  [][/\ (SettleStep /\ lastSettled'.kind = "load")
          => /\ items' = items
             /\ unhandled' = unhandled
             /\ consoleErrors' = consoleErrors + 1
             /\ lastWellFormed' = None => items' = <<>>
     /\ LoadFailed =>
          /\ MapLoad => ~loading'
          /\ (RunSearch /\ NoPolygonDrawn) => UNCHANGED vars
          /\ (RunSearch /\ ~NoPolygonDrawn)
               => \E r \in inflight' \ inflight :
                    r.kind = "search" /\ inflight' = inflight \cup {r}
          /\ (SettleStep /\ lastSettled'.kind = "search"
                /\ WellFormed(lastSettled'.outcome))
               => items' = Records(lastSettled'.outcome)]_vars

\* C12 witness: the load failed (one error logged, none unhandled), the map
\* has loaded, and a later search's response is the Dataset.
InitialLoadFailureWitness ==
  /\ LoadFailed
  /\ consoleErrors = 1 /\ unhandled = 0
  /\ ~loading
  /\ lastSettled # None /\ lastSettled.kind = "search"
  /\ WellFormed(lastSettled.outcome)
  /\ items = <<RX, RY>>
  /\ lastAll = None

\* C15: clearSearch deletes every drawn feature and issues exactly one
\* unfiltered fetch, at once and whatever is drawn; a failure of that fetch
\* restores nothing and writes nothing.
ClearDeletesThenFetchesOnce ==
  [][/\ (ClearSearch \/ \E r \in inflight' \ inflight : r.kind = "clear")
          => /\ drawn' = <<>>
             /\ items' = items
             /\ \E r \in inflight' \ inflight :
                  /\ r.kind = "clear" /\ r.body = Undefined
                  /\ inflight' = inflight \cup {r}
     /\ (SettleStep /\ lastSettled'.kind = "clear"
           /\ Throws(lastSettled'.outcome))
          => UNCHANGED << drawn, items >>]_vars

\* C15 witness: a clear has just failed; nothing is drawn and the Dataset is
\* still a search result, not the last unfiltered response.
ClearDeletesWitness ==
  /\ lastSettled # None /\ lastSettled.kind = "clear"
  /\ Throws(lastSettled.outcome)
  /\ drawn = <<>>
  /\ items = <<RX, RY>>
  /\ lastAll # None /\ lastAll.v = <<R1, R2>>

\* C16: a search request carries the coordinates of the first polygon drawn
\* when search was invoked; drawing or deleting afterwards changes no
\* request in flight, its well-formed response is applied whatever is drawn
\* by then, and neither the invocation nor the completion touches the drawn
\* features.
FirstPolygonIndex(features) ==
  CHOOSE i \in 1..Len(features) :
    /\ features[i].geometry.type = "Polygon"
    /\ \A j \in 1..(i - 1) : features[j].geometry.type # "Polygon"

SearchCarriesSnapshot ==
  [][/\ \A r \in inflight' \ inflight :
          r.kind = "search"
            => /\ ~NoPolygonDrawn
               /\ r.body.polygon.type = "Polygon"
               /\ r.body.polygon.coordinates
                    = drawn[FirstPolygonIndex(drawn)].geometry.coordinates
               /\ drawn' = drawn
     /\ drawn' # drawn => inflight' = inflight
     /\ (SettleStep /\ lastSettled'.kind = "search")
          => /\ drawn' = drawn
             /\ WellFormed(lastSettled'.outcome)
                  => items' = Records(lastSettled'.outcome)]_vars

\* C16 witness: a search's response was applied, and another search issued
\* for the first polygon is in flight while only the second polygon is left.
SearchCarriesSnapshotWitness ==
  /\ lastSettled # None /\ lastSettled.kind = "search"
  /\ WellFormed(lastSettled.outcome)
  /\ items = <<RX, RY>>
  /\ drawn = <<PolygonB>>
  /\ \E r \in inflight :
       r.kind = "search" /\ r.body.polygon.coordinates = <<RingA>>

\* ------------------------------------------------------------------- C13
\* C13: when the backend base URL is not configured, no fetch request
\* (initial load, search or clear) is ever issued against the missing base
\* URL.
NoFetchWithoutBackend ==
  backend = Undefined => (inflight = {} /\ nextId = 1)

\* ------------------------------------------------------------------- C14
\* C14: a cluster click whose lookup fails (nothing found at the point, a
\* feature without cluster id, or an expansion-zoom error) is a no-op: no
\* exception is raised, easeTo is sent only for a cluster whose zoom was
\* found, and neither the Dataset nor the source changes.
ClusterLookupFailureIsNoOp ==
  [][/\ uncaught' = uncaught
     /\ camera' # camera
          => \E p \in pendingZoom \ pendingZoom' :
               /\ p.clusterId # Undefined
               /\ camera'.center = p.center
     /\ (clicks' # clicks \/ pendingZoom' # pendingZoom)
          => UNCHANGED << items, source >>]_vars

\* ------------------------------------------------------------------- C17
\* C17: the Dataset changes only in the step that completes a fetch whose
\* response arrived and parsed; drawing or deleting geometry, cluster and
\* point clicks, the zoom callback, the map's load event and the issuing
\* of a request leave the Dataset unchanged.
DatasetWrittenOnlyByCompletions ==
  [][/\ items' # items
          => /\ SettleStep
             /\ ~Throws(lastSettled'.outcome)
             /\ items' = NextItems(lastSettled'.outcome.data)
     /\ ( \/ drawn' # drawn
          \/ clicks' # clicks
          \/ pendingZoom' # pendingZoom
          \/ camera' # camera
          \/ popup' # popup
          \/ loaded' # loaded
          \/ nextId' # nextId )
          => items' = items]_vars

\* C17 witness: a completion has filled the Dataset, and since then a
\* polygon was drawn, a point was clicked and a request was issued that has
\* not completed.
DatasetWrittenOnlyWitness ==
  /\ items = <<R1, R2>>
  /\ lastSettled # None /\ lastSettled.kind = "load"
  /\ drawn = <<PolygonA>>
  /\ clicks = 1 /\ popup # None
  /\ loaded
  /\ \E r \in inflight : r.kind = "search"

\* ------------------------------------------------------------------- C18
\* C18: the controller is Ready (loading is false) only once the initial
\* fetchAll has settled, the source has been initialized and the click
\* handlers are attached.
ReadyOnlyAfterInitialLoad ==
  ~loading => /\ \A r \in inflight : r.kind # "load"
              /\ source # NoSource
              /\ handlers = 1

\* ------------------------------------------------------------------- C19
\* C19: whenever the controller is mounted it holds a live surface, with
\* the click handlers subscribed exactly once when the surface has loaded,
\* and it never calls into a surface that teardown has released.
SurfaceOwnedWhileMounted ==
  mounted => /\ mapRef = "map"
             /\ mapLive = "live"
             /\ loaded => handlers = 1
             /\ ~staleUse
====
